---- MODULE Spec2Model ----
(***************************************************************************)
(* dynamicresponse/response.py: DynamicResponse and its three variants     *)
(* SerializeOrRender, SerializeOrRedirect and Serialize.                   *)
(*                                                                         *)
(* Python values are modelled as follows.  A dict whose iteration order is *)
(* irrelevant to the code (context, kwargs, extra_headers, form.errors,    *)
(* settings, an instance's attributes) is a function from its keys.  The   *)
(* dict `extra`, which serialize iterates with .items(), is the sequence   *)
(* of its <<key, value>> items in iteration order.  A tuple is a tuple, a  *)
(* list a sequence, a str a string.  Objects of the host framework are     *)
(* records of what the code reads from them or passes to them.             *)
(***************************************************************************)
EXTENDS Integers, Sequences, FiniteSets, TLC

VARIABLES settings, call, self, phase, ret

vars == <<settings, call, self, phase, ret>>

-----------------------------------------------------------------------------
(* Bounds *)

\* Largest total number of messages in one form's errors.
MaxMsgs == 3

-----------------------------------------------------------------------------
(* Module constants, response.py lines 9-14 *)

CR_OK == <<"OK", 200>>
CR_INVALID_DATA == <<"INVALID", 400>>
CR_NOT_FOUND == <<"NOT_FOUND", 404>>
CR_CONFIRM == <<"CONFIRM", 405>>
CR_DELETED == <<"DELETED", 204>>
CR_REQUIRES_UPGRADE == <<"REQUIRES_UPGRADE", 402>>

Statuses ==
  {CR_OK, CR_INVALID_DATA, CR_NOT_FOUND, CR_CONFIRM, CR_DELETED, CR_REQUIRES_UPGRADE}

-----------------------------------------------------------------------------
(* Python primitives *)

None == [py |-> "None"]

\* hasattr(obj, name) on an instance whose attributes are the function obj.
hasattr(obj, name) == name \in DOMAIN obj

\* getattr with the default taken as True.
getattr_default_true(obj, name, default) ==
  IF name \in DOMAIN obj THEN obj[name] ELSE TRUE

\* getattr(obj, name, default)
getattr(obj, name, default) == IF name \in DOMAIN obj THEN obj[name] ELSE default

\* setattr(obj, name, value)
setattr(obj, name, value) == (name :> value) @@ obj

\* d.get(key, default)
dict_get(d, key, default) == IF key \in DOMAIN d THEN d[key] ELSE default

\* d.update(other) for two dicts held as functions.
dict_update(d, other) == other @@ d

\* d.update(other) where other is held as its sequence of items.
RECURSIVE dict_update_items(_, _)
dict_update_items(d, items) ==
  IF items = <<>> THEN d
  ELSE dict_update_items(setattr(d, Head(items)[1], Head(items)[2]), Tail(items))

\* sep.join(list)
RECURSIVE str_join(_, _)
str_join(sep, list) ==
  IF list = <<>> THEN ""
  ELSE IF Len(list) = 1 THEN Head(list)
  ELSE Head(list) \o sep \o str_join(sep, Tail(list))

\* isinstance(value, Form) or isinstance(value, ModelForm)
isinstance_form(value) == value.class \in {"Form", "ModelForm"}

-----------------------------------------------------------------------------
(* Objects of the host framework *)

\* JsonResponse(object=None, **kwargs)
JsonResponse(object, kwargs) ==
  [kind |-> "JsonResponse",
   object |-> object,
   status_code |-> dict_get(kwargs, "status", 200),
   headers |-> <<>>]

\* render_to_response(template, context, RequestContext(request))
render_to_response(template, context) ==
  [kind |-> "HttpResponse",
   template |-> template,
   context |-> context,
   headers |-> <<>>]

\* HttpResponseRedirect(url)
HttpResponseRedirect(url) ==
  [kind |-> "HttpResponseRedirect",
   url |-> url,
   headers |-> <<>>]

\* res[header] = value
set_header(res, header, value) ==
  [res EXCEPT !.headers = setattr(@, header, value)]

-----------------------------------------------------------------------------
(* class DynamicResponse *)

\* for arg in kwargs: setattr(self, arg, kwargs[arg])
RECURSIVE setattr_each(_, _, _)
setattr_each(obj, names, kwargs) ==
  IF names = {} THEN obj
  ELSE LET arg == CHOOSE a \in names : TRUE
       IN setattr_each(setattr(obj, arg, kwargs[arg]), names \ {arg}, kwargs)

\* __init__ reading the context's status after the keyword arguments are set.
DynamicResponse_init_status_last(cls, context, kwargs) ==
  LET s0 == ("__class__" :> cls)
      s1 == setattr(s0, "context", context)
      s2 == setattr_each(s1, DOMAIN kwargs, kwargs)
  IN setattr(s2, "status", dict_get(context, "status", CR_OK))

\* DynamicResponse.__init__(self, context={}, **kwargs); cls is type(self).
DynamicResponse_init(cls, context, kwargs) ==
  LET s0 == ("__class__" :> cls)
      s1 == setattr(s0, "context", context)
      s2 == setattr(s1, "status", dict_get(context, "status", CR_OK))
  IN setattr_each(s2, DOMAIN kwargs, kwargs)

\* The loop body starting `field_errors` afresh for every field.
add_form_error_reset(errors, key, val) ==
  LET flat == str_join(" ", val)
  IN IF key = "__all__"
     THEN setattr(errors, "general_errors", flat)
     ELSE setattr(errors, "field_errors", (key :> flat))

\* Body of `for key, val in form.errors.items()`: one error entry of a form.
add_form_error(errors, key, val) ==
  LET flat == str_join(" ", val)
  IN IF key = "__all__"
     THEN setattr(errors, "general_errors", flat)
     ELSE LET e1 == IF "field_errors" \notin DOMAIN errors
                    THEN setattr(errors, "field_errors", <<>>)
                    ELSE errors
          IN setattr(e1, "field_errors", setattr(e1["field_errors"], key, flat))

\* for key, val in form.errors.items(): ...
RECURSIVE add_form_errors(_, _, _)
add_form_errors(errors, keys, form_errors) ==
  IF keys = {} THEN errors
  ELSE LET key == CHOOSE k \in keys : TRUE
       IN add_form_errors(add_form_error(errors, key, form_errors[key]),
                          keys \ {key}, form_errors)

\* [value for key, value in self.extra.items() if isinstance(value, Form) or ...]
RECURSIVE extra_forms(_)
extra_forms(items) ==
  IF items = <<>> THEN <<>>
  ELSE IF isinstance_form(Head(items)[2])
       THEN <<Head(items)[2]>> \o extra_forms(Tail(items))
       ELSE extra_forms(Tail(items))

\* The loop over the forms without the is_valid() test.
RECURSIVE collect_errors_unguarded(_, _)
collect_errors_unguarded(errors, forms) ==
  IF forms = <<>> THEN errors
  ELSE collect_errors_unguarded(
         add_form_errors(errors, DOMAIN Head(forms).errors, Head(forms).errors),
         Tail(forms))

\* for form in [...]: if not form.is_valid(): ...
RECURSIVE collect_errors(_, _)
collect_errors(errors, forms) ==
  IF forms = <<>> THEN errors
  ELSE LET form == Head(forms)
       IN IF ~form.is_valid
          THEN collect_errors(add_form_errors(errors, DOMAIN form.errors, form.errors),
                              Tail(forms))
          ELSE collect_errors(errors, Tail(forms))

\* full_context updating with `extra` first and the context second.
full_context_context_last(obj) ==
  LET fc0 == <<>>
      fc1 == IF hasattr(obj, "extra") THEN dict_update_items(fc0, obj["extra"]) ELSE fc0
      fc2 == dict_update(fc1, obj["context"])
  IN [self |-> obj, ret |-> fc2]

\* DynamicResponse.full_context(self)
full_context(obj) ==
  LET fc0 == <<>>
      fc1 == dict_update(fc0, obj["context"])
      fc2 == IF hasattr(obj, "extra") THEN dict_update_items(fc1, obj["extra"]) ELSE fc1
  IN [self |-> obj, ret |-> fc2]

\* serialize sending the full context for status OK.
serialize_full_context(obj, conf) ==
  LET status_code == obj["status"][2]
  IN IF status_code = CR_OK[2]
     THEN [self |-> obj, ret |-> JsonResponse(full_context(obj).ret, <<>>)]
     ELSE IF /\ status_code = CR_INVALID_DATA[2]
             /\ hasattr(obj, "extra")
             /\ getattr(conf, "DYNAMICRESPONSE_JSON_FORM_ERRORS", FALSE)
          THEN [self |-> obj,
                ret |-> JsonResponse(collect_errors(<<>>, extra_forms(obj["extra"])),
                                     [status |-> status_code])]
          ELSE [self |-> obj, ret |-> JsonResponse(None, [status |-> status_code])]

\* serialize making the blank response without its status.
serialize_blank_no_status(obj, conf) ==
  LET status_code == obj["status"][2]
  IN IF status_code = CR_OK[2]
     THEN [self |-> obj, ret |-> JsonResponse(obj["context"], <<>>)]
     ELSE IF /\ status_code = CR_INVALID_DATA[2]
             /\ hasattr(obj, "extra")
             /\ getattr(conf, "DYNAMICRESPONSE_JSON_FORM_ERRORS", FALSE)
          THEN [self |-> obj,
                ret |-> JsonResponse(collect_errors(<<>>, extra_forms(obj["extra"])),
                                     [status |-> status_code])]
          ELSE [self |-> obj, ret |-> JsonResponse(None, <<>>)]

\* serialize returning the errors only when there are some, and the blank
\* response otherwise.
serialize_errors_if_any(obj, conf) ==
  LET status_code == obj["status"][2]
      errors == collect_errors(<<>>, extra_forms(obj["extra"]))
  IN IF status_code = CR_OK[2]
     THEN [self |-> obj, ret |-> JsonResponse(obj["context"], <<>>)]
     ELSE IF /\ status_code = CR_INVALID_DATA[2]
             /\ hasattr(obj, "extra")
             /\ getattr(conf, "DYNAMICRESPONSE_JSON_FORM_ERRORS", FALSE)
             /\ errors # <<>>
          THEN [self |-> obj, ret |-> JsonResponse(errors, [status |-> status_code])]
          ELSE [self |-> obj, ret |-> JsonResponse(None, [status |-> status_code])]

\* DynamicResponse.serialize(self)
serialize(obj, conf) ==
  LET key == obj["status"][1]
      status_code == obj["status"][2]
  IN IF status_code = CR_OK[2]
     THEN [self |-> obj, ret |-> JsonResponse(obj["context"], <<>>)]
     ELSE IF /\ status_code = CR_INVALID_DATA[2]
             /\ hasattr(obj, "extra")
             /\ getattr(conf, "DYNAMICRESPONSE_JSON_FORM_ERRORS", FALSE)
          THEN [self |-> obj,
                ret |-> JsonResponse(collect_errors(<<>>, extra_forms(obj["extra"])),
                                     [status |-> status_code])]
          ELSE [self |-> obj, ret |-> JsonResponse(None, [status |-> status_code])]

\* for header in self.extra_headers: res[header] = self.extra_headers[header]
RECURSIVE set_headers(_, _, _)
set_headers(res, names, extra_headers) ==
  IF names = {} THEN res
  ELSE LET header == CHOOSE h \in names : TRUE
       IN set_headers(set_header(res, header, extra_headers[header]),
                      names \ {header}, extra_headers)

\* The headers put on JSON responses only.
apply_extra_headers_json_only(obj, res) ==
  IF hasattr(obj, "extra_headers") /\ res.kind = "JsonResponse"
  THEN set_headers(res, DOMAIN obj["extra_headers"], obj["extra_headers"])
  ELSE res

\* if hasattr(self, 'extra_headers'): for header in self.extra_headers: ...
apply_extra_headers(obj, res) ==
  IF hasattr(obj, "extra_headers")
  THEN set_headers(res, DOMAIN obj["extra_headers"], obj["extra_headers"])
  ELSE res

-----------------------------------------------------------------------------
(* classes SerializeOrRender, SerializeOrRedirect, Serialize *)

\* SerializeOrRender.__init__(self, template, context={}, **kwargs)
SerializeOrRender_init(template, context, kwargs) ==
  setattr(DynamicResponse_init("SerializeOrRender", context, kwargs), "template", template)

\* render_response with the two branches exchanged.
SerializeOrRender_render_response_swapped(obj, conf, request) ==
  LET s == serialize(obj, conf)
      f == full_context(obj)
      res == IF ~request.is_api THEN s.ret
             ELSE render_to_response(obj["template"], f.ret)
  IN [self |-> obj, ret |-> apply_extra_headers(obj, res)]

\* SerializeOrRender.render_response(self, request, response)
SerializeOrRender_render_response(obj, conf, request) ==
  LET s == serialize(obj, conf)
      f == full_context(obj)
      res == IF request.is_api THEN s.ret
             ELSE render_to_response(obj["template"], f.ret)
      obj1 == IF request.is_api THEN s.self ELSE f.self
  IN [self |-> obj1, ret |-> apply_extra_headers(obj1, res)]

\* SerializeOrRedirect.__init__(self, url, context={}, **kwargs)
SerializeOrRedirect_init(url, context, kwargs) ==
  setattr(DynamicResponse_init("SerializeOrRedirect", context, kwargs), "url", url)

\* SerializeOrRedirect.render_response(self, request, response)
SerializeOrRedirect_render_response(obj, conf, request) ==
  LET s == serialize(obj, conf)
      res == IF request.is_api THEN s.ret ELSE HttpResponseRedirect(obj["url"])
      obj1 == IF request.is_api THEN s.self ELSE obj
  IN [self |-> obj1, ret |-> apply_extra_headers(obj1, res)]

\* Serialize.__init__(self, context={}, **kwargs)
Serialize_init(context, kwargs) ==
  DynamicResponse_init("Serialize", context, kwargs)

\* Serialize.render_response(self, request, response)
Serialize_render_response(obj, conf, request) ==
  LET s == serialize(obj, conf)
  IN [self |-> s.self, ret |-> apply_extra_headers(s.self, s.ret)]

-----------------------------------------------------------------------------
(* Values the callers supply *)

\* All dicts with keys among `keys` and values among `vals`.
Dicts(keys, vals) == UNION {[K -> vals] : K \in SUBSET keys}

\* All lists of 1..n elements of `elems`.
Lists(elems, n) == UNION {[1..k -> elems] : k \in 1..n}

\* An optional keyword argument: absent, or name=value for a value of `vals`.
Optional(name, vals) == {<<>>} \cup {(name :> v) : v \in vals}

\* A value that is neither a Form nor a ModelForm.
Plain(v) == [class |-> "object", value |-> v]

GeneralMsgs == {"bad"}
FieldMsgs == {"required", "too short"}
FieldNames == {"name", "email"}

RECURSIVE TotalLen(_, _)
TotalLen(d, keys) ==
  IF keys = {} THEN 0
  ELSE LET k == CHOOSE x \in keys : TRUE
       IN Len(d[k]) + TotalLen(d, keys \ {k})

\* form.errors: '__all__' and field names to lists of messages, at most
\* MaxMsgs messages in all.
ErrorDicts ==
  {e \in {g @@ f : g \in Dicts({"__all__"}, Lists(GeneralMsgs, MaxMsgs)),
                   f \in Dicts(FieldNames, Lists(FieldMsgs, MaxMsgs))} :
     TotalLen(e, DOMAIN e) <= MaxMsgs}

\* Form objects: what is_valid() returns and the errors mapping.  ModelForm
\* objects carry at most one message.
Forms ==
  [class : {"Form"}, is_valid : BOOLEAN, errors : ErrorDicts]
  \cup [class : {"ModelForm"}, is_valid : BOOLEAN,
        errors : {e \in ErrorDicts : TotalLen(e, DOMAIN e) <= 1}]

\* The settings module with the flag unset, off or on.
Settings == Dicts({"DYNAMICRESPONSE_JSON_FORM_ERRORS"}, BOOLEAN)

Templates == {"post.html", "list.html"}
Urls == {"/posts/", "/login/"}

\* Contexts: an optional entry 'post' and an optional entry 'status'.
Contexts ==
  {p @@ st : p \in Optional("post", {Plain("post")}), st \in Optional("status", Statuses)}

\* All orders of the items of the dicts with keys among `keys`.
ItemLists(keys, vals) ==
  {s \in UNION {[1..n -> keys \X vals] : n \in 0..Cardinality(keys)} :
     \A i, j \in DOMAIN s : i # j => s[i][1] # s[j][1]}

SampleForm ==
  [class |-> "Form", is_valid |-> FALSE, errors |-> ("name" :> <<"required">>)]

Extras == ItemLists({"form", "post"}, {Plain("extra"), SampleForm})

HeaderDicts == Dicts({"Cache-Control", "X-Version"}, {"no-cache", "2"})

Kwargs ==
  {st @@ ex @@ eh : st \in Optional("status", Statuses),
                    ex \in Optional("extra", Extras),
                    eh \in Optional("extra_headers", HeaderDicts)}

\* Inputs of the form-error path: status INVALID and an `extra` of forms.
FormExtras ==
  LET vals == Forms \cup {Plain("extra")}
  IN {<<>>} \cup {<< <<"form", v>> >> : v \in vals}
            \cup {<< <<"form", v>>, <<"other", w>> >> : v \in vals, w \in vals}

FormKwargs ==
  {("status" :> CR_INVALID_DATA) @@ ex : ex \in Optional("extra", FormExtras)}

Requests == [is_api : BOOLEAN]

-----------------------------------------------------------------------------
(* State machine *)

Init ==
  /\ settings \in Settings
  /\ call = <<>>
  /\ self = <<>>
  /\ phase = "new"
  /\ ret = [op |-> "none"]

Constructed(obj, cls, arg, context, kwargs) ==
  /\ self' = obj
  /\ call' = [class |-> cls, arg |-> arg, context |-> context, kwargs |-> kwargs]
  /\ phase' = "constructed"
  /\ UNCHANGED <<settings, ret>>

NewSerializeOrRender(Ctxs, Kws) ==
  /\ phase = "new"
  /\ \E template \in Templates, context \in Ctxs, kwargs \in Kws :
       Constructed(SerializeOrRender_init(template, context, kwargs),
                   "SerializeOrRender", template, context, kwargs)

NewSerializeOrRedirect(Ctxs, Kws) ==
  /\ phase = "new"
  /\ \E url \in Urls, context \in Ctxs, kwargs \in Kws :
       Constructed(SerializeOrRedirect_init(url, context, kwargs),
                   "SerializeOrRedirect", url, context, kwargs)

NewSerialize(Ctxs, Kws) ==
  /\ phase = "new"
  /\ \E context \in Ctxs, kwargs \in Kws :
       Constructed(Serialize_init(context, kwargs), "Serialize", "", context, kwargs)

CallSerialize ==
  /\ phase = "constructed"
  /\ LET r == serialize(self, settings)
     IN /\ self' = r.self
        /\ ret' = [op |-> "serialize", val |-> r.ret]
  /\ UNCHANGED <<settings, call, phase>>

CallFullContext ==
  /\ phase = "constructed"
  /\ LET r == full_context(self)
     IN /\ self' = r.self
        /\ ret' = [op |-> "full_context", val |-> r.ret]
  /\ UNCHANGED <<settings, call, phase>>

Rendered(r, request) ==
  /\ self' = r.self
  /\ ret' = [op |-> "render_response", is_api |-> request.is_api, val |-> r.ret]
  /\ UNCHANGED <<settings, call, phase>>

RenderSerializeOrRender ==
  /\ phase = "constructed"
  /\ self["__class__"] = "SerializeOrRender"
  /\ \E request \in Requests :
       Rendered(SerializeOrRender_render_response(self, settings, request), request)

RenderSerializeOrRedirect ==
  /\ phase = "constructed"
  /\ self["__class__"] = "SerializeOrRedirect"
  /\ \E request \in Requests :
       Rendered(SerializeOrRedirect_render_response(self, settings, request), request)

RenderSerialize ==
  /\ phase = "constructed"
  /\ self["__class__"] = "Serialize"
  /\ \E request \in Requests :
       Rendered(Serialize_render_response(self, settings, request), request)

Next ==
  \/ NewSerializeOrRender(Contexts, Kwargs)
  \/ NewSerializeOrRedirect(Contexts, Kwargs)
  \/ NewSerialize(Contexts, Kwargs)
  \/ CallSerialize
  \/ CallFullContext
  \/ RenderSerializeOrRender
  \/ RenderSerializeOrRedirect
  \/ RenderSerialize

Spec == Init /\ [][Next]_vars

NextForms ==
  \/ NewSerialize({<<>>}, FormKwargs)
  \/ CallSerialize

SpecForms == Init /\ [][NextForms]_vars

-----------------------------------------------------------------------------
(* Vocabulary of the properties *)

\* The last call was `op` on a constructed dispatcher.
Returned(op) == phase = "constructed" /\ ret.op = op

StatusCode == self["status"][2]

FlagOn ==
  /\ "DYNAMICRESPONSE_JSON_FORM_ERRORS" \in DOMAIN settings
  /\ settings["DYNAMICRESPONSE_JSON_FORM_ERRORS"]

HasExtra == "extra" \in DOMAIN call.kwargs
ExtraItems == call.kwargs["extra"]
ExtraKeys == {ExtraItems[i][1] : i \in DOMAIN ExtraItems}
ExtraValue(k) == LET i == CHOOSE j \in DOMAIN ExtraItems : ExtraItems[j][1] = k
                 IN ExtraItems[i][2]

HasHeaders == "extra_headers" \in DOMAIN call.kwargs

\* A response with the headers set on it taken off again.
Bare(res) == [res EXCEPT !.headers = <<>>]

-----------------------------------------------------------------------------
(* C1 *)

\* C1: whenever serialize has returned on a dispatcher whose status code is
\* 200, the result is a JSON response with code 200 whose body is the context
\* mapping passed to the constructor, none of the entries of `extra` added,
\* whatever the flag and `extra` are.
C1_OkBodyIsContext ==
  (Returned("serialize") /\ StatusCode = 200) =>
    /\ ret.val.kind = "JsonResponse"
    /\ ret.val.status_code = 200
    /\ ret.val.object = call.context
    /\ \A k \in DOMAIN ret.val.object : k \in DOMAIN call.context

\* An OK dispatcher serialized with the flag on and an `extra` that holds a key
\* the context lacks and a key the context has too.
C1_Witness ==
  /\ Returned("serialize")
  /\ self["status"] = CR_OK
  /\ FlagOn
  /\ HasExtra
  /\ ExtraKeys = {"form", "post"}
  /\ DOMAIN call.context = {"post"}
  /\ ret.val.object = call.context

-----------------------------------------------------------------------------
(* C2 *)

\* C2: whenever serialize has returned on a dispatcher whose status is
\* NOT_FOUND, CONFIRM, DELETED or REQUIRES_UPGRADE, the result is a JSON
\* response without a body whose code is that status's numeric code (404, 405,
\* 204, 402), for every context, `extra` and flag.
C2_OtherStatusEmptyBody ==
  \A st \in {CR_NOT_FOUND, CR_CONFIRM, CR_DELETED, CR_REQUIRES_UPGRADE} :
    (Returned("serialize") /\ self["status"] = st) =>
      /\ ret.val.kind = "JsonResponse"
      /\ ret.val.object = None
      /\ ret.val.status_code = st[2]
      /\ ret.val.status_code \in {404, 405, 204, 402}

\* A DELETED dispatcher serialized with the flag on, a non-empty context and an
\* `extra` holding a form.
C2_Witness ==
  /\ Returned("serialize")
  /\ self["status"] = CR_DELETED
  /\ FlagOn
  /\ call.context # <<>>
  /\ HasExtra
  /\ \E k \in ExtraKeys : isinstance_form(ExtraValue(k))
  /\ ret.val.status_code = 204

-----------------------------------------------------------------------------
(* C5 *)

\* The merged context: extra's entries over the context's.
Merged ==
  [k \in DOMAIN call.context \cup (IF HasExtra THEN ExtraKeys ELSE {}) |->
     IF HasExtra /\ k \in ExtraKeys THEN ExtraValue(k) ELSE call.context[k]]

\* C5: after render_response of SerializeOrRender or SerializeOrRedirect, the
\* request's is_api alone selects the branch: with is_api false the result is
\* not a JSON response but the named template rendered with the merged context,
\* respectively a redirect to the supplied URL; with is_api true the result is
\* the response serialize returns (carrying the extra headers), not a rendered
\* template and not a redirect.
C5_IsApiSelectsBranch ==
  (Returned("render_response") /\ call.class \in {"SerializeOrRender", "SerializeOrRedirect"}) =>
    /\ (~ret.is_api /\ call.class = "SerializeOrRender") =>
         /\ ret.val.kind = "HttpResponse"
         /\ ret.val.template = call.arg
         /\ ret.val.context = Merged
    /\ (~ret.is_api /\ call.class = "SerializeOrRedirect") =>
         /\ ret.val.kind = "HttpResponseRedirect"
         /\ ret.val.url = call.arg
    /\ ret.is_api =>
         /\ ret.val.kind = "JsonResponse"
         /\ Bare(ret.val) = serialize(self, settings).ret

\* Both branches taken: a browser request to a NOT_FOUND SerializeOrRender ...
C5_WitnessRender ==
  /\ Returned("render_response")
  /\ call.class = "SerializeOrRender"
  /\ ~ret.is_api
  /\ self["status"] = CR_NOT_FOUND
  /\ ret.val.kind = "HttpResponse"

\* ... and an API request to an INVALID SerializeOrRedirect.
C5_Witness ==
  /\ Returned("render_response")
  /\ call.class = "SerializeOrRedirect"
  /\ ret.is_api
  /\ self["status"] = CR_INVALID_DATA
  /\ ret.val.kind = "JsonResponse"
  /\ ret.val.status_code = 400

-----------------------------------------------------------------------------
(* C6 *)

\* C6: after render_response of any of the three classes, on either branch and
\* for every status, every entry of the supplied extra_headers is a header of
\* the result with the supplied value; without extra_headers the result
\* carries no added header.
C6_ExtraHeadersApplied ==
  Returned("render_response") =>
    IF HasHeaders
    THEN \A h \in DOMAIN call.kwargs["extra_headers"] :
           /\ h \in DOMAIN ret.val.headers
           /\ ret.val.headers[h] = call.kwargs["extra_headers"][h]
    ELSE ret.val.headers = <<>>

\* Two different headers put on a redirect.
C6_Witness ==
  /\ Returned("render_response")
  /\ call.class = "SerializeOrRedirect"
  /\ ~ret.is_api
  /\ HasHeaders
  /\ call.kwargs["extra_headers"] =
       ("Cache-Control" :> "no-cache") @@ ("X-Version" :> "2")
  /\ ret.val.headers["X-Version"] = "2"
  /\ ret.val.headers["Cache-Control"] = "no-cache"

-----------------------------------------------------------------------------
(* C7 *)

\* C7 as stated: once constructed, the status is the context's `status` entry,
\* or OK when the context has none, after any sequence of calls.
C7_StatusFromContext ==
  phase = "constructed" => self["status"] = dict_get(call.context, "status", CR_OK)

\* C7 amended: once constructed, the status is the `status` keyword argument
\* when one was passed, else the context's `status` entry, else OK, and no
\* call of serialize, full_context or render_response changes it.
C7_StatusFixed ==
  /\ [](phase = "constructed" =>
          self["status"] = IF "status" \in DOMAIN call.kwargs
                           THEN call.kwargs["status"]
                           ELSE dict_get(call.context, "status", CR_OK))
  /\ [][phase = "constructed" => self'["status"] = self["status"]]_vars

\* A dispatcher whose status came from the context, after a render_response.
C7_Witness ==
  /\ Returned("render_response")
  /\ "status" \notin DOMAIN call.kwargs
  /\ "status" \in DOMAIN call.context
  /\ self["status"] = CR_CONFIRM

\* A dispatcher constructed with status=CR_INVALID_DATA over a context that
\* says NOT_FOUND.
C7_WitnessKeyword ==
  /\ Returned("serialize")
  /\ "status" \in DOMAIN call.kwargs
  /\ call.kwargs["status"] = CR_INVALID_DATA
  /\ dict_get(call.context, "status", CR_OK) = CR_NOT_FOUND
  /\ self["status"] = CR_INVALID_DATA

-----------------------------------------------------------------------------
(* C8 *)

\* C8: after full_context, the result's keys are the keys of the context and
\* of `extra` together, every key of `extra` maps to extra's value, every
\* other key to the context's value, the result is the context when there is
\* no `extra`, and the dispatcher's context and `extra` are what the
\* constructor was given.
C8_FullContextMerges ==
  Returned("full_context") =>
    /\ DOMAIN ret.val = DOMAIN call.context \cup (IF HasExtra THEN ExtraKeys ELSE {})
    /\ HasExtra => \A k \in ExtraKeys : ret.val[k] = ExtraValue(k)
    /\ \A k \in DOMAIN call.context :
         ~(HasExtra /\ k \in ExtraKeys) => ret.val[k] = call.context[k]
    /\ ~HasExtra => ret.val = call.context
    /\ self["context"] = call.context
    /\ hasattr(self, "extra") = HasExtra
    /\ HasExtra => self["extra"] = ExtraItems

\* A merge where `extra` overrides the context's 'post' and adds 'form'.
C8_Witness ==
  /\ Returned("full_context")
  /\ HasExtra
  /\ ExtraKeys = {"form", "post"}
  /\ "post" \in DOMAIN call.context
  /\ ret.val["post"] = Plain("extra")
  /\ call.context["post"] = Plain("post")
  /\ "status" \in DOMAIN ret.val

-----------------------------------------------------------------------------
(* Vocabulary of the form-error properties *)

\* The places in `extra` of the forms whose is_valid() is false.
InvalidForms ==
  {i \in DOMAIN ExtraItems :
     isinstance_form(ExtraItems[i][2]) /\ ~ExtraItems[i][2].is_valid}

FormsIn == {i \in DOMAIN ExtraItems : isinstance_form(ExtraItems[i][2])}

ErrorsOf(i) == ExtraItems[i][2].errors

\* The last invalid form, in iteration order, that has errors under `k`.
LastWith(k) ==
  CHOOSE i \in InvalidForms :
    /\ k \in DOMAIN ErrorsOf(i)
    /\ \A j \in InvalidForms : k \in DOMAIN ErrorsOf(j) => j <= i

\* The first n messages of a list, each after the first behind one space.
RECURSIVE Flat(_, _)
Flat(list, n) ==
  IF n = 1 THEN list[1] ELSE Flat(list, n - 1) \o " " \o list[n]

Flattened(k) == LET l == ErrorsOf(LastWith(k))[k] IN Flat(l, Len(l))

FieldKeys == UNION {DOMAIN ErrorsOf(i) \ {"__all__"} : i \in InvalidForms}

ExampleErrors == ("__all__" :> <<"bad">>) @@ ("name" :> <<"required", "too short">>)

ExampleBody ==
  ("general_errors" :> "bad") @@ ("field_errors" :> ("name" :> "required too short"))

InvalidWithFlagOn ==
  Returned("serialize") /\ StatusCode = 400 /\ FlagOn

-----------------------------------------------------------------------------
(* C3 *)

\* C3: whenever serialize has returned for status INVALID_DATA with the flag
\* on and an `extra` holding an invalid form, the code is 400 and the body has
\* `general_errors` exactly when an invalid form has '__all__' errors and
\* `field_errors` with exactly the other field names of the invalid forms,
\* each value the field's messages joined by single spaces in their order (of
\* the last invalid form having the field); valid forms add nothing; errors
\* {'__all__': ['bad'], 'name': ['required', 'too short']} give
\* {'general_errors': 'bad', 'field_errors': {'name': 'required too short'}}.
C3_FormErrorsBody ==
  (InvalidWithFlagOn /\ HasExtra /\ InvalidForms # {}) =>
    LET body == ret.val.object
    IN /\ ret.val.kind = "JsonResponse"
       /\ ret.val.status_code = 400
       /\ DOMAIN body \subseteq {"general_errors", "field_errors"}
       /\ "general_errors" \in DOMAIN body <=>
            \E i \in InvalidForms : "__all__" \in DOMAIN ErrorsOf(i)
       /\ "general_errors" \in DOMAIN body =>
            body["general_errors"] = Flattened("__all__")
       /\ "field_errors" \in DOMAIN body <=> FieldKeys # {}
       /\ "field_errors" \in DOMAIN body =>
            /\ DOMAIN body["field_errors"] = FieldKeys
            /\ \A k \in FieldKeys : body["field_errors"][k] = Flattened(k)
       /\ (\A i \in InvalidForms : ErrorsOf(i) = ExampleErrors) => body = ExampleBody

\* The example of the claim, next to a valid form that has errors of its own.
C3_Witness ==
  /\ InvalidWithFlagOn
  /\ HasExtra
  /\ Len(ExtraItems) = 2
  /\ InvalidForms = {1}
  /\ ErrorsOf(1) = ExampleErrors
  /\ FormsIn = {1, 2}
  /\ ErrorsOf(2) = ("email" :> <<"required">>)
  /\ ret.val.object = ExampleBody
  /\ ret.val.status_code = 400

\* Two invalid forms with errors for different fields.
C3_WitnessTwoForms ==
  /\ InvalidWithFlagOn
  /\ HasExtra
  /\ InvalidForms = {1, 2}
  /\ ErrorsOf(1) = ("name" :> <<"too short", "required">>)
  /\ ErrorsOf(2) = ("email" :> <<"required">>)
  /\ ret.val.object =
       ("field_errors" :> (("name" :> "too short required") @@ ("email" :> "required")))

-----------------------------------------------------------------------------
(* C4 *)

\* C4: whenever serialize has returned for status INVALID_DATA with the flag
\* off or unset, the result is a JSON response without a body and with code
\* 400, whatever `extra` holds.
C4_FlagOffEmptyBody ==
  (Returned("serialize") /\ StatusCode = 400 /\ ~FlagOn) =>
    /\ ret.val.kind = "JsonResponse"
    /\ ret.val.object = None
    /\ ret.val.status_code = 400

\* Flag unset and an invalid form with errors in `extra`.
C4_Witness ==
  /\ Returned("serialize")
  /\ StatusCode = 400
  /\ settings = <<>>
  /\ HasExtra
  /\ InvalidForms # {}
  /\ \E i \in InvalidForms : ErrorsOf(i) = ExampleErrors
  /\ ret.val.object = None

\* Flag set to False and an invalid form with errors in `extra`.
C4_WitnessOff ==
  /\ Returned("serialize")
  /\ StatusCode = 400
  /\ settings = [DYNAMICRESPONSE_JSON_FORM_ERRORS |-> FALSE]
  /\ HasExtra
  /\ \E i \in InvalidForms : ErrorsOf(i) = ExampleErrors
  /\ ret.val.object = None

-----------------------------------------------------------------------------
(* C9 *)

\* C9 as stated: for status INVALID_DATA with the flag on, when `extra` is
\* absent or holds no form, serialize returns the response of the default
\* case, the one made without a body object and with code 400.
C9_NoFormsDefaultCase ==
  (InvalidWithFlagOn /\ (~HasExtra \/ FormsIn = {})) =>
    ret.val = JsonResponse(None, [status |-> 400])

\* C9 amended: for status INVALID_DATA with the flag on, serialize returns the
\* response of the default case (no body object, code 400) when `extra` is
\* absent; when `extra` is present and holds no form it returns code 400 with
\* the empty errors mapping {} as the body object.
C9_NoFormsAmended ==
  (InvalidWithFlagOn /\ (~HasExtra \/ FormsIn = {})) =>
    /\ ret.val.kind = "JsonResponse"
    /\ ret.val.status_code = 400
    /\ ~HasExtra => ret.val = JsonResponse(None, [status |-> 400])
    /\ HasExtra => ret.val.object = <<>> /\ ret.val.object # None

\* An `extra` with one value that is not a form.
C9_Witness ==
  /\ InvalidWithFlagOn
  /\ HasExtra
  /\ Len(ExtraItems) = 1
  /\ FormsIn = {}
  /\ ret.val.object = <<>>

\* No `extra` at all.
C9_WitnessAbsent ==
  /\ InvalidWithFlagOn
  /\ ~HasExtra
  /\ ret.val.object = None

-----------------------------------------------------------------------------
(* C10 *)

\* C10 as stated: for status INVALID_DATA with the flag on and an `extra` in
\* which no form is invalid, serialize returns no response.
C10_ReturnsNothing ==
  (InvalidWithFlagOn /\ HasExtra /\ InvalidForms = {}) => ret.val = None

\* C10 amended: for status INVALID_DATA with the flag on and an `extra` in
\* which no form is invalid, serialize returns a JSON response with code 400
\* whose body object is the empty errors mapping {}.
C10_ReturnsEmptyErrors ==
  (InvalidWithFlagOn /\ HasExtra /\ InvalidForms = {}) =>
    /\ ret.val # None
    /\ ret.val.kind = "JsonResponse"
    /\ ret.val.status_code = 400
    /\ ret.val.object = <<>>

\* Two valid forms, one of them with errors.
C10_Witness ==
  /\ InvalidWithFlagOn
  /\ HasExtra
  /\ FormsIn = {1, 2}
  /\ InvalidForms = {}
  /\ ErrorsOf(1) = ExampleErrors
  /\ ret.val.kind = "JsonResponse"
  /\ ret.val.object = <<>>

====
